---------------------------- MODULE Spec2Model ----------------------------
(***************************************************************************)
(* Model of the "Merge NLA Strips" operator, CO_OT_CaN_MergeStrips.execute *)
(* (src/__init__.py).  One call of execute() is followed block by block;   *)
(* pc names the block that runs next.  The host objects the operator reads *)
(* and writes (NLA tracks, strips, the scene's evaluated values) are the   *)
(* state; the operator's local variables keep their names.                 *)
(*                                                                         *)
(* All selected strips lie on the tracks of one object, as line 30 of the  *)
(* source assumes.  Frame numbers of strips are floats in the host; here   *)
(* they are rationals with denominator SubFrames, stored as numerators.    *)
(* A data path is a natural number, its rank in string order.              *)
(***************************************************************************)
EXTENDS Integers, Sequences, FiniteSets, TLC

\* ------------------------------------------------------------------ bounds
NumTracks == 3        \* tracks of the object before the call
NumStrips == 3        \* strips on those tracks
SubFrames == 2        \* strip frame numbers are multiples of 1/SubFrames
MaxFrame  == 2        \* strip frame numbers lie in -MaxFrame .. MaxFrame
NumPaths  == 2        \* distinct data paths
MaxIndex  == 2        \* array indices 0 .. MaxIndex - 1 occur in f-curves
ArrayLen  == 1        \* length of an array-valued property

Inf == 1000000        \* math.inf

Tracks  == 1 .. NumTracks
Strips  == 1 .. NumStrips
Paths   == 1 .. NumPaths
Entries == Paths \X (0 .. MaxIndex - 1)
Frames  == (0 - MaxFrame) .. MaxFrame

BlendTypes == {"REPLACE", "COMBINE", "ADD"}

Min(a, b) == IF a < b THEN a ELSE b
Max(a, b) == IF a > b THEN a ELSE b

\* ------------------------------------------------------------ Python values
None          == [kind |-> "None",  v |-> <<>>]
PyFloat(x)    == [kind |-> "float", v |-> <<x>>]
PyArray(xs)   == [kind |-> "array", v |-> xs]
ResolveError  == [kind |-> "error", v |-> <<>>]

NoAction      == [present |-> FALSE, fcurves |-> {}]
Action(fcs)   == [present |-> TRUE,  fcurves |-> fcs]

VARIABLES
    pc,               \* block of execute() that runs next, or how the call ended
    nla_tracks,       \* obj.animation_data.nla_tracks: sequence of track ids
    track_mute,       \* track id -> track.mute
    track_strips,     \* track id -> track.strips, a sequence of strip ids
    strip,            \* strip id -> frame_start, frame_end, blend_type, select, action
    strip_mute,       \* strip id -> strip.mute
    scene,            \* frame -> path -> what obj.path_resolve gives at that frame
    rejected,         \* entries for which merged_action.fcurves.new raises
    selected_strips,  \* strips kept by the filter of lines 42-49
    strip_mode, strip_start, strip_end, disabled_tracks, track_min_idx,
    original_mute,    \* the snapshot of line 81 (empty before it is taken)
    affected,         \* sorted sequence of (data_path, array_index)
    frame,            \* loop variable of the bake loop
    fcurve_values,    \* sequence of [frame, vals]
    merged_action,    \* [created, fcurves]: entry -> set of <<frame, value>>
    prev_track, new_track, new_strip,
    mute0,            \* history: track.mute of every track when execute() was called
    restores          \* history: number of passes that wrote original_mute back

vars == <<pc, nla_tracks, track_mute, track_strips, strip, strip_mute, scene, rejected,
          selected_strips, strip_mode, strip_start, strip_end, disabled_tracks,
          track_min_idx, original_mute, affected, frame, fcurve_values,
          merged_action, prev_track, new_track, new_strip, mute0, restores>>

host   == <<nla_tracks, track_strips, strip, scene, mute0>>
locals == <<selected_strips, strip_mode, strip_start, strip_end, disabled_tracks,
            track_min_idx, original_mute, affected, frame, fcurve_values,
            merged_action, prev_track, new_track, new_strip>>


\* ------------------------------------------------- lines 42-53: the filter
\* `a and getattr(a, "fcurves", None) and len(a.fcurves) > 0`
Eligible(a) == a.present /\ Cardinality(a.fcurves) > 0

\* the filter left out: every selected strip is kept
FilterNone(sel_strips_all) == sel_strips_all

FilterStrips(sel_strips_all) == {s \in sel_strips_all : Eligible(strip[s].action)}

\* -------------------------------------- lines 55-78: range, mode and tracks
Floor(x) == x \div SubFrames                  \* math.floor of x / SubFrames
\* math.floor where math.ceil belongs
CeilAsFloor(x) == x \div SubFrames

Ceil(x)  == 0 - ((0 - x) \div SubFrames)      \* math.ceil of x / SubFrames

\* no REPLACE precedence: the last scanned strip wins
NextModeLast(mode, blend_type) == blend_type

\* line 71-72
NextMode(mode, blend_type) ==
    IF blend_type = "REPLACE" \/ mode # "REPLACE" THEN blend_type ELSE mode

\* the index of the last track found instead of the least
IdxLast(track_min, i) == i

\* line 74
MinIdx(track_min, i) == Min(track_min, i)

\* lines 65-72, one strip of the inner loop
ScanStrip(acc, t, s) ==
    IF s \in selected_strips
    THEN [acc EXCEPT !.found = TRUE,
                     !.disabled_tracks = @ \cup {t},
                     !.strip_start = Min(@, Floor(strip[s].frame_start)),
                     !.strip_end = Max(@, Ceil(strip[s].frame_end)),
                     !.strip_mode = NextMode(@, strip[s].blend_type)]
    ELSE acc

RECURSIVE ScanStrips(_, _, _)
ScanStrips(acc, t, k) ==
    IF k > Len(track_strips[t]) THEN acc
    ELSE ScanStrips(ScanStrip(acc, t, track_strips[t][k]), t, k + 1)

\* lines 62-74; i is the 0-based index of enumerate()
RECURSIVE ScanTracks(_, _)
ScanTracks(acc, i) ==
    IF i >= Len(nla_tracks) THEN acc
    ELSE LET t == nla_tracks[i + 1]
             a == ScanStrips([acc EXCEPT !.found = FALSE], t, 1)
         IN  ScanTracks(IF a.found
                        THEN [a EXCEPT !.track_min_idx = MinIdx(@, i)]
                        ELSE a, i + 1)

Resolved ==
    ScanTracks([strip_mode |-> "COMBINE", strip_start |-> Inf, strip_end |-> 0 - Inf,
                disabled_tracks |-> {}, track_min_idx |-> Inf, found |-> FALSE], 0)

\* ------------------------------------------------ lines 80-90: the isolation
\* the REPLACE exemption of lines 87-88 left out
MustMuteAll(i, t) == ~track_mute[t] /\ t \notin disabled_tracks

\* i is the 0-based index of track t
MustMute(i, t) ==
    /\ ~track_mute[t]
    /\ t \notin disabled_tracks
    /\ ~(strip_mode = "REPLACE" /\ i < track_min_idx)

MutedByIsolation == {nla_tracks[i + 1] : i \in {j \in 0 .. Len(nla_tracks) - 1 :
                                                 MustMute(j, nla_tracks[j + 1])}}

\* ------------------------------------------------ lines 101-109: the catalog
EntryLess(a, b) == a[1] < b[1] \/ (a[1] = b[1] /\ a[2] < b[2])

RECURSIVE SortedSeq(_)
SortedSeq(S) ==
    IF S = {} THEN <<>>
    ELSE LET m == CHOOSE x \in S : \A y \in S \ {x} : EntryLess(x, y)
         IN  <<m>> \o SortedSeq(S \ {m})

Affected == SortedSeq(UNION {strip[s].action.fcurves : s \in selected_strips})

\* --------------------------------------------------- lines 120-143: the bake
\* lines 127-142: None when path_resolve raised, resolved[idx] when that works,
\* the resolved value itself otherwise
ReadValue(resolved, idx) ==
    IF resolved.kind = "error" THEN None
    ELSE IF resolved.kind = "array" /\ idx < Len(resolved.v)
         THEN PyFloat(resolved.v[idx + 1])
         ELSE resolved

SampleRow(f) ==
    [frame |-> f,
     vals  |-> [i \in 1 .. Len(affected) |->
                  ReadValue(scene[f][affected[i][1]], affected[i][2])]]

\* ------------------------------------------------ lines 163-180: keyframes
\* float(val) raises for anything but a number
CanFloat(val) == val.kind = "float"

\* line 172
IsAbsent(val) == val = None

\* the keyframe placed at the offset from the range's start
InsertKeyOffset(points, f, value) ==
    {p \in points : p[1] # f - strip_start} \cup {<<f - strip_start, value>>}

\* keyframe_points.insert: one point per frame
InsertKey(points, f, value) == {p \in points : p[1] # f} \cup {<<f, value>>}

\* lines 166-180, one row of the table
InsertRow(fcurves, row) ==
    [e \in DOMAIN fcurves |->
        LET i   == CHOOSE k \in 1 .. Len(affected) : affected[k] = e
            val == row.vals[i]
        IN  IF IsAbsent(val) THEN fcurves[e]
            ELSE IF ~CanFloat(val) THEN fcurves[e]
            ELSE InsertKey(fcurves[e], row.frame, val.v[1])]

RECURSIVE InsertRows(_, _)
InsertRows(fcurves, k) ==
    IF k > Len(fcurve_values) THEN fcurves
    ELSE InsertRows(InsertRow(fcurves, fcurve_values[k]), k + 1)

\* ------------------------------------------- lines 182-219: restore, install
\* every track unmuted instead of set back to the snapshot
Unmuted(mute) == [t \in DOMAIN mute |-> FALSE]

\* lines 187-188 and 211-213
Restored(mute) ==
    [t \in DOMAIN mute |-> IF t \in DOMAIN original_mute THEN original_mute[t] ELSE mute[t]]

\* lines 191-194 and 216-219
SelectedMuted(smute) ==
    [s \in DOMAIN smute |-> IF s \in selected_strips THEN TRUE ELSE smute[s]]

HoldsSelected(t) == \E k \in 1 .. Len(track_strips[t]) : track_strips[t][k] \in selected_strips

\* line 195: the last track, in track order, that holds a kept strip (0: None)
PrevTrack ==
    LET held == {i \in 1 .. Len(nla_tracks) : HoldsSelected(nla_tracks[i])}
    IN  IF held = {} THEN 0
        ELSE nla_tracks[CHOOSE i \in held : \A j \in held : j <= i]

\* line 198: nla_tracks.new() with no prev appends the track at the end
NewTrackId == NumTracks + 1
NewStripId == NumStrips + 1
TracksNew(tracks, t) == Append(tracks, t)


\* ------------------------------------------------------------------ actions
Done == pc \in {"FINISHED", "CANCELLED", "RAISED"}

\* lines 31-53
Filter ==
    /\ pc = "start"
    /\ LET sel_strips_all == {s \in DOMAIN strip : strip[s].select}
           kept == FilterStrips(sel_strips_all)
       IN  /\ selected_strips' = IF sel_strips_all = {} THEN {} ELSE kept
           /\ pc' = IF sel_strips_all = {} \/ Cardinality(kept) < 2
                    THEN "CANCELLED" ELSE "resolve"
    /\ UNCHANGED <<host, track_mute, strip_mute, rejected, strip_mode, strip_start,
                   strip_end, disabled_tracks, track_min_idx, original_mute, affected,
                   frame, fcurve_values, merged_action, prev_track, new_track,
                   new_strip, restores>>

\* lines 55-78
Resolve ==
    /\ pc = "resolve"
    /\ LET r == Resolved
       IN  /\ strip_mode' = r.strip_mode
           /\ strip_start' = r.strip_start
           /\ strip_end' = r.strip_end
           /\ disabled_tracks' = r.disabled_tracks
           /\ track_min_idx' = r.track_min_idx
           /\ pc' = IF r.strip_start = Inf \/ r.strip_end = 0 - Inf
                    THEN "CANCELLED" ELSE "isolate"
    /\ UNCHANGED <<host, track_mute, strip_mute, rejected, selected_strips,
                   original_mute, affected, frame, fcurve_values, merged_action,
                   prev_track, new_track, new_strip, restores>>

\* lines 80-90
Isolate ==
    /\ pc = "isolate"
    /\ original_mute' = [t \in {nla_tracks[i] : i \in 1 .. Len(nla_tracks)} |-> track_mute[t]]
    /\ track_mute' = [t \in DOMAIN track_mute |->
                        IF t \in MutedByIsolation THEN TRUE ELSE track_mute[t]]
    /\ disabled_tracks' = disabled_tracks \cup MutedByIsolation
    /\ pc' = "catalog"
    /\ UNCHANGED <<host, strip_mute, rejected, selected_strips, strip_mode, strip_start,
                   strip_end, track_min_idx, affected, frame, fcurve_values,
                   merged_action, prev_track, new_track, new_strip, restores>>

\* lines 101-118
Catalog ==
    /\ pc = "catalog"
    /\ affected' = Affected
    /\ IF Affected = <<>>
       THEN /\ track_mute' = Restored(track_mute)
            /\ restores' = restores + 1
            /\ pc' = "CANCELLED"
            /\ frame' = frame
       ELSE /\ UNCHANGED <<track_mute, restores>>
            /\ frame' = strip_start
            /\ pc' = IF strip_start < strip_end THEN "bake" ELSE "create_action"
    /\ UNCHANGED <<host, strip_mute, rejected, selected_strips, strip_mode, strip_start,
                   strip_end, disabled_tracks, track_min_idx, original_mute,
                   fcurve_values, merged_action, prev_track, new_track, new_strip>>

\* lines 122-143, one frame of the loop
BakeFrame ==
    /\ pc = "bake"
    /\ fcurve_values' = Append(fcurve_values, SampleRow(frame))
    /\ frame' = frame + 1
    /\ pc' = IF frame + 1 < strip_end THEN "bake" ELSE "create_action"
    /\ UNCHANGED <<host, track_mute, strip_mute, rejected, selected_strips, strip_mode,
                   strip_start, strip_end, disabled_tracks, track_min_idx, original_mute,
                   affected, merged_action, prev_track, new_track, new_strip, restores>>

\* lines 123-124: scene.frame_set or the progress update raises; nothing catches it
BakeRaise ==
    /\ pc = "bake"
    /\ pc' = "RAISED"
    /\ UNCHANGED <<host, track_mute, strip_mute, rejected, locals, restores>>

\* lines 146-147
CreateAction ==
    /\ pc = "create_action"
    /\ merged_action' = [created |-> TRUE, fcurves |-> <<>>]
    /\ pc' = "create_fcurves"
    /\ UNCHANGED <<host, track_mute, strip_mute, rejected, selected_strips, strip_mode,
                   strip_start, strip_end, disabled_tracks, track_min_idx, original_mute,
                   affected, frame, fcurve_values, prev_track, new_track, new_strip,
                   restores>>

\* line 147: bpy.data.actions.new raises; nothing catches it
CreateActionRaise ==
    /\ pc = "create_action"
    /\ pc' = "RAISED"
    /\ UNCHANGED <<host, track_mute, strip_mute, rejected, locals, restores>>

\* lines 150-161: a curve the host rejects is left out of new_fcurves
CreateFCurves ==
    /\ pc = "create_fcurves"
    /\ merged_action' = [merged_action EXCEPT !.fcurves =
            [e \in {affected[i] : i \in 1 .. Len(affected)} \ rejected |-> {}]]
    /\ pc' = "insert_keys"
    /\ UNCHANGED <<host, track_mute, strip_mute, rejected, selected_strips, strip_mode,
                   strip_start, strip_end, disabled_tracks, track_min_idx, original_mute,
                   affected, frame, fcurve_values, prev_track, new_track, new_strip,
                   restores>>

\* lines 163-180
InsertKeyframes ==
    /\ pc = "insert_keys"
    /\ merged_action' = [merged_action EXCEPT !.fcurves = InsertRows(@, 1)]
    /\ pc' = "restore"
    /\ UNCHANGED <<host, track_mute, strip_mute, rejected, selected_strips, strip_mode,
                   strip_start, strip_end, disabled_tracks, track_min_idx, original_mute,
                   affected, frame, fcurve_values, prev_track, new_track, new_strip,
                   restores>>

\* lines 182-195
RestoreTracks ==
    /\ pc = "restore"
    /\ track_mute' = Restored(track_mute)
    /\ restores' = restores + 1
    /\ strip_mute' = SelectedMuted(strip_mute)
    /\ prev_track' = PrevTrack
    /\ pc' = "new_track"
    /\ UNCHANGED <<host, rejected, selected_strips, strip_mode, strip_start, strip_end,
                   disabled_tracks, track_min_idx, original_mute, affected, frame,
                   fcurve_values, merged_action, new_track, new_strip>>

\* lines 197-199
NewTrack ==
    /\ pc = "new_track"
    /\ nla_tracks' = TracksNew(nla_tracks, NewTrackId)
    /\ track_mute' = track_mute @@ (NewTrackId :> FALSE)
    /\ track_strips' = track_strips @@ (NewTrackId :> <<>>)
    /\ new_track' = NewTrackId
    /\ pc' = "new_strip"
    /\ UNCHANGED <<strip, scene, mute0, strip_mute, rejected, selected_strips, strip_mode,
                   strip_start, strip_end, disabled_tracks, track_min_idx, original_mute,
                   affected, frame, fcurve_values, merged_action, prev_track, new_strip,
                   restores>>

\* lines 201-207
NewStrip ==
    /\ pc = "new_strip"
    /\ new_strip' = [created |-> TRUE, track |-> new_track, start |-> strip_start,
                     action |-> merged_action, blend_type |-> strip_mode]
    /\ track_strips' = [track_strips EXCEPT ![new_track] = Append(@, NewStripId)]
    /\ pc' = "cleanup"
    /\ UNCHANGED <<nla_tracks, strip, scene, mute0, track_mute, strip_mute, rejected,
                   selected_strips, strip_mode, strip_start, strip_end, disabled_tracks,
                   track_min_idx, original_mute, affected, frame, fcurve_values,
                   merged_action, prev_track, new_track, restores>>

\* lines 209-226
Cleanup ==
    /\ pc = "cleanup"
    /\ track_mute' = Restored(track_mute)
    /\ restores' = restores + 1
    /\ strip_mute' = SelectedMuted(strip_mute)
    /\ pc' = "FINISHED"
    /\ UNCHANGED <<host, rejected, locals>>

Next ==
    \/ Filter
    \/ Resolve
    \/ Isolate
    \/ Catalog
    \/ BakeFrame
    \/ BakeRaise
    \/ CreateAction
    \/ CreateActionRaise
    \/ CreateFCurves
    \/ InsertKeyframes
    \/ RestoreTracks
    \/ NewTrack
    \/ NewStrip
    \/ Cleanup


\* ------------------------------------------------------- the call's inputs
\* Strips are numbered in scan order: tracks in track order, strips in order
\* within each track.
Layouts == {l \in [Strips -> Tracks] : \A s \in 1 .. NumStrips - 1 : l[s] <= l[s + 1]}
Spread  == [s \in Strips |-> Min(s, NumTracks)]

StripsOn(l, t) == SelectSeq([i \in Strips |-> i], LAMBDA s : l[s] = t)

\* a track holds its strips in time order and they do not overlap
FitsTracks(l, rg) ==
    \A s \in 1 .. NumStrips - 1 : l[s] = l[s + 1] => rg[s][2] <= rg[s + 1][1]

Kind(sel, act, blend) == [select |-> sel, action |-> act, blend_type |-> blend]
OneCurve == Action({<<1, 0>>})

\* one whole frame per strip, in scan order
UnitRanges == [s \in Strips |-> <<(s - 2) * SubFrames, (s - 1) * SubFrames>>]

\* frame numbers with and without fractions, negative and positive; a strip is
\* a fraction of a frame or one frame long
StartNumerators == {0 - (SubFrames + 1), 0 - 1, 0, 1}
ShortRanges == {<<a, a + n>> : a \in StartNumerators, n \in {1, SubFrames}}

\* overlapping strips of two frames each
LongRanges == [s \in Strips |-> <<(s - 2) * SubFrames, Min(s, MaxFrame) * SubFrames>>]

\* what a path can resolve to at a frame: path_resolve raises, a number, an array
ArrayValue  == PyArray([i \in 1 .. ArrayLen |-> i])
Resolutions == <<ResolveError, PyFloat(0), ArrayValue>>
PlainScene  == [f \in Frames |-> [p \in Paths |-> PyFloat(1)]]
\* c gives the first path's resolution at each frame, the frames taken modulo
\* Len(c); the other paths run through the same resolutions shifted
SceneOf(c)  == [f \in Frames |-> [p \in Paths |->
                   Resolutions[((c[(f % Len(c)) + 1] + p) % Len(Resolutions)) + 1]]]
Scenes      == {SceneOf(c) : c \in [1 .. Len(Resolutions) -> 0 .. Len(Resolutions) - 1]}

InitWith(layouts, mutes, kinds, ranges, scenes, rejects) ==
    \E l \in layouts, m \in mutes, k \in kinds, rg \in ranges, sc \in scenes, rj \in rejects :
        /\ FitsTracks(l, rg)
        /\ pc = "start"
        /\ nla_tracks = [i \in Tracks |-> i]
        /\ track_mute = m
        /\ mute0 = m
        /\ track_strips = [t \in Tracks |-> StripsOn(l, t)]
        /\ strip = [s \in Strips |->
                      [frame_start |-> rg[s][1], frame_end |-> rg[s][2],
                       blend_type |-> k[s].blend_type, select |-> k[s].select,
                       action |-> k[s].action]]
        /\ strip_mute = [s \in Strips |-> FALSE]
        /\ scene = sc
        /\ rejected = rj
        /\ selected_strips = {}
        /\ strip_mode = "COMBINE"
        /\ strip_start = Inf
        /\ strip_end = 0 - Inf
        /\ disabled_tracks = {}
        /\ track_min_idx = Inf
        /\ original_mute = <<>>
        /\ affected = <<>>
        /\ frame = 0
        /\ fcurve_values = <<>>
        /\ merged_action = [created |-> FALSE, fcurves |-> <<>>]
        /\ prev_track = 0
        /\ new_track = 0
        /\ new_strip = [created |-> FALSE, track |-> 0, start |-> 0,
                        action |-> [created |-> FALSE, fcurves |-> <<>>],
                        blend_type |-> "COMBINE"]
        /\ restores = 0

\* Tracks, mute flags and selection vary; ranges and values are plain.
IsolationKinds == {Kind(FALSE, OneCurve, "COMBINE"), Kind(TRUE, NoAction, "REPLACE"),
                   Kind(TRUE, OneCurve, "COMBINE"), Kind(TRUE, OneCurve, "REPLACE")}

Init == InitWith(Layouts, [Tracks -> BOOLEAN], [Strips -> IsolationKinds],
                 {UnitRanges}, {PlainScene}, {{}})

Spec == Init /\ [][Next]_vars

\* Frame ranges and eligibility vary.
RangeKinds == {Kind(TRUE, NoAction, "COMBINE"), Kind(TRUE, OneCurve, "COMBINE")}

InitRange == InitWith({Spread}, {[t \in Tracks |-> FALSE]}, [Strips -> RangeKinds],
                      [Strips -> ShortRanges], {PlainScene}, {{}})

SpecRange == InitRange /\ [][Next]_vars

\* Blend types, selection and eligibility vary.
ModeKinds == {Kind(FALSE, OneCurve, "REPLACE"), Kind(TRUE, NoAction, "REPLACE"),
              Kind(TRUE, Action({}), "REPLACE")}
             \cup {Kind(TRUE, OneCurve, b) : b \in BlendTypes}

InitMode == InitWith(Layouts, {[t \in Tracks |-> FALSE]}, [Strips -> ModeKinds],
                     {UnitRanges}, {PlainScene}, {{}})

SpecMode == InitMode /\ [][Next]_vars

\* F-curves, resolved values and rejected curves vary.
CurveSets == {{<<1, 0>>}, {<<1, 0>>, <<1, MaxIndex - 1>>}, {<<NumPaths, 0>>, <<1, MaxIndex - 1>>}}
BakeKinds == {Kind(TRUE, Action(c), "COMBINE") : c \in CurveSets}

InitBake == InitWith({Spread}, {[t \in Tracks |-> FALSE]},
                     {k \in [Strips -> BakeKinds \cup {Kind(FALSE, OneCurve, "COMBINE")}] :
                        \A s \in Strips : k[s].select <=> s <= 2},
                     {LongRanges}, Scenes, {{}, {<<1, 0>>}})

SpecBake == InitBake /\ [][Next]_vars


\* =================================================================== claims
\* Notions the claims speak of, stated from the host's objects alone.
TrackIndex(t)  == (CHOOSE i \in 1 .. Len(nla_tracks) : nla_tracks[i] = t) - 1
TrackAt(i)     == nla_tracks[i + 1]
OldTracks      == DOMAIN mute0
OnTrack(s, t)  == \E k \in 1 .. Len(track_strips[t]) : track_strips[t][k] = s
SelectedAll    == {s \in DOMAIN strip : strip[s].select}
HasCurves(s)   == strip[s].action.present /\ strip[s].action.fcurves # {}
SelectedKept   == {s \in SelectedAll : HasCurves(s)}
HoldsKept(t)   == \E s \in SelectedKept : OnTrack(s, t)
AfterResolve   == pc \notin {"start", "resolve", "CANCELLED"}

\* C1: when execute() returns FINISHED, every track that existed before the call
\* has the mute flag it had before the call.
C1_MuteRestoredOnFinish ==
    pc = "FINISHED" => \A t \in OldTracks : track_mute[t] = mute0[t]

C1_Witness ==
    /\ pc = "FINISHED"
    /\ \E t \in OldTracks : ~mute0[t] /\ ~HoldsKept(t) /\ t \in disabled_tracks
    /\ \E t \in OldTracks : mute0[t]

\* C2: when an error leaves execute() during sampling or synthesis, every track's
\* mute flag is back at its snapshot value.
C2_MuteRestoredOnError ==
    pc = "RAISED" => \A t \in DOMAIN original_mute : track_mute[t] = original_mute[t]

\* C3: during the sampling loop the muted tracks are exactly those muted before
\* the call plus those that were unmuted, hold no selected eligible strip and are
\* not exempted by "mode is REPLACE and track index < track_min_idx"; a track
\* that holds a selected strip, and an exempted track, has its pre-call flag.
Exempted(t) == strip_mode = "REPLACE" /\ TrackIndex(t) < track_min_idx

C3_MutedSetDuringSampling ==
    pc = "bake" =>
        /\ {t \in OldTracks : track_mute[t]}
             = {t \in OldTracks : mute0[t]}
               \cup {t \in OldTracks : ~mute0[t] /\ ~HoldsKept(t) /\ ~Exempted(t)}
        /\ \A t \in OldTracks : HoldsKept(t) \/ Exempted(t) => track_mute[t] = mute0[t]

C3_Witness ==
    /\ pc = "bake"
    /\ Len(fcurve_values) > 0
    /\ \E t \in OldTracks : ~mute0[t] /\ ~HoldsKept(t) /\ Exempted(t)
    /\ \E t \in OldTracks : ~mute0[t] /\ ~HoldsKept(t) /\ ~Exempted(t)
    /\ \E t \in OldTracks : mute0[t] /\ HoldsKept(t)

\* C4: a selected REPLACE strip on track index 2 and a selected COMBINE strip on
\* track index 0.
Scenario4 ==
    \E a, b \in SelectedKept :
        /\ strip[a].blend_type = "REPLACE" /\ OnTrack(a, TrackAt(2))
        /\ strip[b].blend_type = "COMBINE" /\ OnTrack(b, TrackAt(0))

\* C4 as stated: mode REPLACE, track_min_idx = 2, tracks 0 and 1 not muted by
\* the isolation.
C4_AsStated ==
    pc = "bake" /\ Scenario4 =>
        /\ strip_mode = "REPLACE"
        /\ track_min_idx = 2
        /\ track_mute[TrackAt(0)] = mute0[TrackAt(0)]
        /\ track_mute[TrackAt(1)] = mute0[TrackAt(1)]

\* C4 amended: mode REPLACE and track_min_idx = 0; the isolation leaves track 0
\* as it was and mutes track 1 unless track 1 holds a selected eligible strip.
C4_ReplaceAboveCombine ==
    pc = "bake" /\ Scenario4 =>
        /\ strip_mode = "REPLACE"
        /\ track_min_idx = 0
        /\ track_mute[TrackAt(0)] = mute0[TrackAt(0)]
        /\ ~HoldsKept(TrackAt(1)) => track_mute[TrackAt(1)]

C4_Witness ==
    /\ pc = "bake"
    /\ Scenario4
    /\ ~mute0[TrackAt(1)]
    /\ ~HoldsKept(TrackAt(1))
    /\ track_mute[TrackAt(1)]


\* A frame number x / SubFrames has floor n iff n * SubFrames <= x < (n + 1) * SubFrames
\* and ceiling n iff (n - 1) * SubFrames < x <= n * SubFrames.
IsMinFloorOfStarts(n, S) ==
    /\ \A s \in S : n * SubFrames <= strip[s].frame_start
    /\ \E s \in S : strip[s].frame_start < (n + 1) * SubFrames

IsMaxCeilOfEnds(n, S) ==
    /\ \A s \in S : strip[s].frame_end <= n * SubFrames
    /\ \E s \in S : (n - 1) * SubFrames < strip[s].frame_end

\* C5 as stated: the resolved range runs from the least floor(frame_start) to
\* the greatest ceil(frame_end) over all selected strips.
C5_AsStated ==
    AfterResolve =>
        /\ IsMinFloorOfStarts(strip_start, SelectedAll)
        /\ IsMaxCeilOfEnds(strip_end, SelectedAll)

\* C5 amended: the same, over the selected strips that have an action with at
\* least one f-curve (at least two of them).
C5_RangeOverKeptStrips ==
    AfterResolve =>
        /\ Cardinality(SelectedKept) >= 2
        /\ IsMinFloorOfStarts(strip_start, SelectedKept)
        /\ IsMaxCeilOfEnds(strip_end, SelectedKept)

C5_Witness ==
    /\ pc = "isolate"
    /\ SelectedAll # SelectedKept
    /\ \E s \in SelectedKept : strip_start = Floor(strip[s].frame_start)
                               /\ strip[s].frame_start % SubFrames # 0
                               /\ strip[s].frame_start < 0
    /\ \E s \in SelectedKept : strip_end = Ceil(strip[s].frame_end)
                               /\ strip[s].frame_end % SubFrames # 0
    /\ ~IsMinFloorOfStarts(strip_start, SelectedAll)

\* Scan order: tracks in track order, strips in order within each track.
ScanPos(s) ==
    LET t == CHOOSE u \in OldTracks : OnTrack(s, u)
    IN  <<TrackIndex(t), CHOOSE k \in 1 .. Len(track_strips[t]) : track_strips[t][k] = s>>
ScannedBefore(a, b) ==
    ScanPos(a)[1] < ScanPos(b)[1] \/ (ScanPos(a)[1] = ScanPos(b)[1] /\ ScanPos(a)[2] < ScanPos(b)[2])
LastScanned(S) == CHOOSE s \in S : \A o \in S \ {s} : ScannedBefore(o, s)

\* C6 as stated: the resolved mode is REPLACE iff some selected strip is REPLACE.
C6_AsStated ==
    AfterResolve =>
        (strip_mode = "REPLACE" <=> \E s \in SelectedAll : strip[s].blend_type = "REPLACE")

\* C6 amended: the resolved mode is REPLACE iff some selected strip with f-curves
\* is REPLACE; otherwise it is the blend type of the last such strip in scan
\* order; the merged strip gets the resolved mode.
C6_ModeOverKeptStrips ==
    /\ AfterResolve =>
        /\ strip_mode = "REPLACE" <=> \E s \in SelectedKept : strip[s].blend_type = "REPLACE"
        /\ (\A s \in SelectedKept : strip[s].blend_type # "REPLACE")
              => strip_mode = strip[LastScanned(SelectedKept)].blend_type
    /\ new_strip.created => new_strip.blend_type = strip_mode

C6_Witness ==
    /\ pc = "FINISHED"
    /\ new_strip.blend_type = "ADD"
    /\ \E s \in SelectedKept : strip[s].blend_type = "COMBINE"
    /\ \E s \in SelectedAll \ SelectedKept : strip[s].blend_type = "REPLACE"

\* C7 as stated: merging two selected strips without an action, or with an action
\* without f-curves, ends FINISHED with a new strip that starts at the resolved
\* start and whose action has no f-curves.
Sourceless == Cardinality(SelectedAll) >= 2 /\ SelectedKept = {}

C7_AsStated ==
    Sourceless /\ Done =>
        /\ pc = "FINISHED"
        /\ new_strip.created
        /\ DOMAIN new_strip.action.fcurves = {}

\* C7 amended: such a call is cancelled by the filter: it never gets past the
\* filter, takes no snapshot, changes no mute flag and creates no action, track
\* or strip.
C7_SourcelessCancelled ==
    Sourceless =>
        /\ pc \in {"start", "CANCELLED"}
        /\ original_mute = <<>>
        /\ track_mute = mute0
        /\ \A s \in DOMAIN strip_mute : ~strip_mute[s]
        /\ ~merged_action.created
        /\ ~new_strip.created
        /\ Len(nla_tracks) = NumTracks

C7_Witness ==
    /\ pc = "CANCELLED"
    /\ Cardinality(SelectedAll) = 2
    /\ \E s \in SelectedAll : ~strip[s].action.present
    /\ \E s \in SelectedAll : strip[s].action.present /\ strip[s].action.fcurves = {}


\* The table's value for a catalog entry at a frame, and the frames that hold a
\* keyframe on the entry's curve.
EntryPos(e)     == CHOOSE i \in 1 .. Len(affected) : affected[i] = e
Sampled(e, f)   ==
    fcurve_values[CHOOSE k \in 1 .. Len(fcurve_values) : fcurve_values[k].frame = f].vals[EntryPos(e)]
RangeFrames     == {f \in Frames : strip_start <= f /\ f < strip_end}
KeyFrames(e)    == {p[1] : p \in merged_action.fcurves[e]}
KeysInserted    == pc \in {"restore", "new_track", "new_strip", "cleanup", "FINISHED"}
TableComplete   == {fcurve_values[k].frame : k \in 1 .. Len(fcurve_values)} = RangeFrames

\* C8 as stated: a created curve holds a keyframe at exactly the frames of
\* [strip_start, strip_end) whose sampled value is not None.
C8_AsStated ==
    KeysInserted =>
        /\ TableComplete
        /\ \A e \in DOMAIN merged_action.fcurves :
              KeyFrames(e) = {f \in RangeFrames : Sampled(e, f) # None}

\* C8 amended: a created curve holds a keyframe at exactly the frames of
\* [strip_start, strip_end) whose sampled value is not None and is a number
\* (float() accepts it), one keyframe per frame, at the absolute frame, with the
\* sampled value; when every sampled value is a number that is
\* strip_end - strip_start keyframes.
C8_KeysAtSampledNumbers ==
    KeysInserted =>
        /\ TableComplete
        /\ \A e \in DOMAIN merged_action.fcurves :
              /\ KeyFrames(e) = {f \in RangeFrames :
                                   Sampled(e, f) # None /\ Sampled(e, f).kind = "float"}
              /\ \A p \in merged_action.fcurves[e] : p[2] = Sampled(e, p[1]).v[1]
              /\ Cardinality(merged_action.fcurves[e]) = Cardinality(KeyFrames(e))
              /\ (\A f \in RangeFrames : Sampled(e, f).kind = "float")
                    => Cardinality(merged_action.fcurves[e]) = strip_end - strip_start

C8_Witness ==
    /\ pc = "FINISHED"
    /\ strip_start # 0
    /\ \E e \in DOMAIN merged_action.fcurves :
          /\ \E f \in RangeFrames : Sampled(e, f) = None
          /\ \E f \in RangeFrames : Sampled(e, f).kind = "array"
          /\ merged_action.fcurves[e] # {}
    /\ \E i \in 1 .. Len(affected) : affected[i] \notin DOMAIN merged_action.fcurves

\* C9: after a merge that completes, the new track comes right after the last
\* track that held a selected strip.
C9_NewTrackAfterLastSelected ==
    pc = "FINISHED" => TrackIndex(new_track) = TrackIndex(prev_track) + 1

\* C10: once the isolation has run, the snapshot is written back exactly once
\* before the call ends, however it ends.
C10_RestoredExactlyOnce ==
    Done /\ original_mute # <<>> => restores = 1

=============================================================================
